---------------------------- MODULE Spec2Model ----------------------------
(***************************************************************************)
(* fair_scm and damage_function of notebooks/fair_main_demo.py as a state  *)
(* machine.                                                                *)
(*                                                                         *)
(* Numbers.  The program computes in IEEE doubles.  Here a real r is the   *)
(* integer r*S (S = 10^4, truncated toward zero), the cumulative uptake    *)
(* C_acc is kept in the finer unit 1/AccUnit so that the sums and the      *)
(* product by ppm_gtc of its update are exact, and the three non-finite    *)
(* doubles are the values PInf, NInf and NaN with the IEEE rules for       *)
(* +, * and / (XAdd, XMul, XDiv).  exp and log are evaluated by series on  *)
(* these fixed-point numbers.                                              *)
(***************************************************************************)
EXTENDS Integers, Sequences, FiniteSets, TLC

\* ------------------------------------------------------------------------
\* Fixed-point reals
\* ------------------------------------------------------------------------

S == 10 ^ 4

NaN  == (2 ^ 30 - 1) + 2 ^ 30
PInf == NaN - 1
NInf == 0 - PInf

IsFinite(x) == x # NaN /\ x # PInf /\ x # NInf

Abs(x) == IF x < 0 THEN 0 - x ELSE x
Sgn(x) == IF x < 0 THEN 0 - 1 ELSE IF x > 0 THEN 1 ELSE 0
Max(x, y) == IF x >= y THEN x ELSE y
Min(x, y) == IF x <= y THEN x ELSE y

\* a / b truncated toward zero, b > 0
TDiv(a, b) == IF a >= 0 THEN a \div b ELSE 0 - ((0 - a) \div b)

\* x * y / S for x, y >= 0, the larger factor split so no product overflows
FMulP(x, y) == (x \div S) * y + ((x % S) * y) \div S

\* the product of two finite reals
FMul(x, y) == Sgn(x) * Sgn(y) * FMulP(Max(Abs(x), Abs(y)), Min(Abs(x), Abs(y)))

\* n decimal digits of r / y by long division, for 0 <= r < y
RECURSIVE LongDiv(_, _, _)
LongDiv(r, y, n) ==
    IF n = 0 THEN 0
    ELSE ((r * 10) \div y) * 10 ^ (n - 1) + LongDiv((r * 10) % y, y, n - 1)

\* x * S / y for x >= 0, y > 0
FDivP(x, y) == (x \div y) * S + LongDiv(x % y, y, 4)

\* the quotient of two finite reals, y # 0
FDiv(x, y) == Sgn(x) * Sgn(y) * FDivP(Abs(x), Abs(y))

\* IEEE product: inf * 0 = nan, nan absorbs, the sign of an infinity follows
XMul(x, y) ==
    IF x = NaN \/ y = NaN THEN NaN
    ELSE IF IsFinite(x) /\ IsFinite(y) THEN FMul(x, y)
    ELSE IF x = 0 \/ y = 0 THEN NaN
    ELSE IF Sgn(x) * Sgn(y) > 0 THEN PInf ELSE NInf

\* IEEE sum: inf - inf = nan
XAdd(x, y) ==
    IF x = NaN \/ y = NaN THEN NaN
    ELSE IF IsFinite(x) /\ IsFinite(y) THEN x + y
    ELSE IF IsFinite(x) THEN y
    ELSE IF IsFinite(y) THEN x
    ELSE IF x = y THEN x ELSE NaN

\* numpy's quotient: x / 0 is +-inf (nan for 0 / 0) with a warning, no error
XDiv(x, y) ==
    IF x = NaN \/ y = NaN THEN NaN
    ELSE IF IsFinite(x) /\ IsFinite(y) THEN
        IF y # 0 THEN FDiv(x, y)
        ELSE IF x = 0 THEN NaN ELSE IF x > 0 THEN PInf ELSE NInf
    ELSE IF IsFinite(y) THEN (IF (Sgn(x) > 0) = (y >= 0) THEN PInf ELSE NInf)
    ELSE IF IsFinite(x) THEN 0
    ELSE NaN

\* x >= y on doubles: every comparison with nan is false
XGe(x, y) == x # NaN /\ y # NaN /\ x >= y

\* exp(-x) for a finite x >= 0: the Taylor polynomial below 1/2, halving and
\* squaring above it, 0 once the value is below one unit
ExpTaylor(x) ==
    LET x2 == FMul(x, x)
        x3 == FMul(x2, x)
        x4 == FMul(x3, x)
        x5 == FMul(x4, x)
        x6 == FMul(x5, x)
    IN  S - x + x2 \div 2 - x3 \div 6 + x4 \div 24 - x5 \div 120 + x6 \div 720

RECURSIVE ExpNeg(_)
ExpNeg(x) ==
    IF x > 10 * S THEN 0
    ELSE IF 2 * x <= S THEN ExpTaylor(x)
    ELSE LET h == ExpNeg(x \div 2) IN FMul(h, h)

\* log(r) for a finite r > 0: 2 atanh((r - 1)/(r + 1))
Ln(r) ==
    LET z  == FDiv(r - S, r + S)
        z2 == FMul(z, z)
        z3 == FMul(z2, z)
        z5 == FMul(z3, z2)
        z7 == FMul(z5, z2)
    IN  2 * (z + TDiv(z3, 3) + TDiv(z5, 5) + TDiv(z7, 7))

\* ------------------------------------------------------------------------
\* Parameters of fair_scm (the defaults of its signature)
\* ------------------------------------------------------------------------

\* a: the partition fractions of the four carbon boxes
a == <<2173, 2240, 2824, 2763>>
\* tau: the native timescales, in tenths of a year (10^6, 394.4, 36.54, 4.304)
tau == <<10 ^ 7, 3944, 365, 43>>
\* q: the thermal weights used when tcrecs is no array
q_default == <<3300, 4100>>
\* tcrecs: transient climate response and equilibrium climate sensitivity
tcrecs_default == <<16000, 27500>>
\* d: the thermal timescales 239.0 and 4.1
d_default == <<2390000, 41000>>
rc == 190
rt == 41650
F_2x == 37400
C_0 == 2780000
\* ppm_gtc in thousandths (2.123)
ppm_gtc == 2123
r0_default == 324000
iirf_max_default == 970000
\* the first seed of the alpha solve, 0.16
alpha_seed == 1600

\* C_acc is counted in units of 1/AccUnit GtC: half an emission unit and the
\* product of a concentration by ppm_gtc are whole numbers of it
AccUnit == 2 * 1000 * S

Boxes == 1..4
Therm == 1..2

RECURSIVE SumSeq(_)
SumSeq(s) == IF s = <<>> THEN 0 ELSE XAdd(Head(s), SumSeq(Tail(s)))

Zeros(n) == [i \in 1..n |-> 0]

\* ------------------------------------------------------------------------
\* Parameter resolver, lines 24-26
\* ------------------------------------------------------------------------

\* k = 1.0 - (d/70.0)*(1.0 - np.exp(-70.0/d)), one thermal box
K(dj) == S - FMul(FDiv(dj, 70 * S), S - ExpNeg(FDiv(70 * S, dj)))

\* q from tcrecs; 1.0/(k[0]-k[1]) is numpy's division, infinite at k[0] = k[1]
QFromTcrEcs(tcrecs, k) ==
    LET f == XMul(FDiv(S, F_2x), XDiv(S, k[1] - k[2]))
    IN  << XMul(f, tcrecs[1] - FMul(tcrecs[2], k[2])),
           XMul(f, FMul(tcrecs[2], k[1]) - tcrecs[1]) >>

\* ------------------------------------------------------------------------
\* iirf_interp_funct, lines 114-117, and the root call of lines 83 and 85
\* ------------------------------------------------------------------------

\* 100/(tau[i]*alp_b), the exponent of box i
BoxExponent(alp_b, i) ==
    LET n == 10 ^ 9 \div tau[i]
    IN  (n \div alp_b) * 100 + ((n % alp_b) * 100) \div alp_b

\* alp_b*a[i]*tau[i]*(1 - exp(-100/(tau[i]*alp_b))) with alp_b*tau[i] written
\* 100/u, u the exponent, so that the large tau[1] does not overflow
BoxTerm(alp_b, i) ==
    LET u == BoxExponent(alp_b, i)
        g == IF u = 0 THEN S ELSE FDiv(S - ExpNeg(u), u)
    IN  FMul(100 * a[i], g)

iirf_arr(alp_b) ==
    BoxTerm(alp_b, 1) + BoxTerm(alp_b, 2) + BoxTerm(alp_b, 3) + BoxTerm(alp_b, 4)

iirf_interp_funct(alp_b, targ_iirf) == iirf_arr(alp_b) - targ_iirf

\* the alphas the search covers, 0.0002 to 209.7
AlphaMin == 1 + 1
AlphaMax == 2 ^ 21

\* the least alpha in lo+1..hi whose residual is not negative, given that the
\* residual is negative at lo and not at hi
RECURSIVE Bisect(_, _, _)
Bisect(lo, hi, targ) ==
    IF hi - lo <= 1 THEN hi
    ELSE LET mid == (lo + hi) \div 2
         IN  IF iirf_interp_funct(mid, targ) < 0 THEN Bisect(mid, hi, targ)
             ELSE Bisect(lo, mid, targ)

\* whether the equation has a root the solver can reach
HasRoot(targ) ==
    /\ IsFinite(targ)
    /\ iirf_interp_funct(AlphaMin, targ) < 0
    /\ iirf_interp_funct(AlphaMax, targ) >= 0

\* scipy.optimize.root(iirf_interp_funct, seed, args=(a,tau,targ)): the results
\* it can return, each with its success flag.  It never raises for a failed
\* solve: without a root it stops on its progress test and returns its last
\* iterate (the seed itself when the residual is nan).
RootResults(seed, targ) ==
    IF HasRoot(targ)
    THEN {[x |-> Bisect(AlphaMin, AlphaMax, targ), success |-> TRUE]}
    ELSE IF targ = NaN THEN {[x |-> seed, success |-> FALSE]}
    ELSE {[x |-> y, success |-> FALSE] : y \in {seed, AlphaMax}}

\* ------------------------------------------------------------------------
\* Inputs
\* ------------------------------------------------------------------------

\* the longest series
MaxN == 4
\* the emission levels, 0 and 5 GtC/yr
EStep == 5 * S
EmissionLevels == {0, EStep}

\* An argument that may be a series or a scalar: ts tells which, val holds the
\* series, or the scalar as its only entry.
Series(s) == [ts |-> TRUE, val |-> s]
Scalar(v) == [ts |-> FALSE, val |-> <<v>>]

\* emissions: a series of levels, or the default False
EmissionInputs(n) ==
    {Series(e) : e \in [1..n -> EmissionLevels]} \cup {Scalar(0)}

\* other_rf: the default 0.0, a series of zeros, a series of 1.0 W/m2
ForcingInputs(n) == {Scalar(0), Series(Zeros(n)), Series([i \in 1..n |-> S])}

\* the parameter sets of the runs: the defaults; thermal timescales that
\* coincide, with q derived from tcrecs; the same with q passed directly and a
\* ceiling just above r0; a target no alpha reaches (r0 = 150, iirf_max = 200)
ParamSets ==
    { [d |-> d_default, tcrecs |-> tcrecs_default,
       r0 |-> r0_default, iirf_max |-> iirf_max_default],
      [d |-> <<41000, 41000>>, tcrecs |-> tcrecs_default,
       r0 |-> r0_default, iirf_max |-> iirf_max_default],
      [d |-> <<41000, 41000>>, tcrecs |-> <<>>,
       r0 |-> r0_default, iirf_max |-> r0_default + 500],
      [d |-> d_default, tcrecs |-> tcrecs_default,
       r0 |-> 150 * S, iirf_max |-> 200 * S] }

\* tcrecs is an array (type(tcrecs) in [np.ndarray, list])
IsArray(t) == t # <<>>

NoRestart == [set |-> FALSE, R_i |-> <<>>, T_j |-> <<>>, C_acc |-> 0]
NoResult  == [returned |-> FALSE, C |-> <<>>, T |-> <<>>, restart |-> NoRestart]

\* s[m..n]
Slice(s, m, n) == [i \in 1..(n - m + 1) |-> s[i + m - 1]]
SliceInput(v, m, n) == IF v.ts THEN Series(Slice(v.val, m, n)) ELSE v

\* ------------------------------------------------------------------------
\* State
\* ------------------------------------------------------------------------

VARIABLES
    \* the caller: the inputs of the whole run, which call is running (the
    \* whole horizon, its first n1 entries, the remaining ones) and each
    \* call's return value
    full_emissions, full_other_rf, params, phase, n1, out,
    \* the running call of fair_scm: its arguments
    emissions, other_rf, restart_in, restart_out,
    \* its locals
    pc, q, integ_len, RF, C_acc, iirf, R_i, T_j, C, T, x, time_scale_sf,
    \* the calls of root it made: seed, target, result
    root_calls,
    \* damage_function: its arguments and result
    dmg

caller == <<full_emissions, full_other_rf, params, phase, n1, out>>
args   == <<emissions, other_rf, restart_in, restart_out>>
arrays == <<RF, C_acc, iirf, R_i, T_j, C, T>>
locals == <<q, integ_len, arrays, x, time_scale_sf, root_calls>>
vars   == <<caller, args, pc, locals, dmg>>

\* the horizon of the whole run
FullLen ==
    IF full_emissions.ts THEN Len(full_emissions.val)
    ELSE IF full_other_rf.ts THEN Len(full_other_rf.val) ELSE 0

NoDamage == [called |-> FALSE, D0 |-> 0, gamma |-> 0, T |-> <<>>, result |-> <<>>]

\* a new frame of fair_scm: nothing allocated, nothing bound
FreshFrame ==
    /\ pc = "resolve"
    /\ q = q_default
    /\ integ_len = 0
    /\ RF = <<>> /\ C_acc = <<>> /\ iirf = <<>> /\ R_i = <<>> /\ T_j = <<>>
    /\ C = <<>> /\ T = <<>>
    /\ x = 0
    /\ time_scale_sf = 0
    /\ root_calls = <<>>

\* the same frame, entered by a call
NewFrame ==
    /\ pc' = "resolve"
    /\ q' = q_default
    /\ integ_len' = 0
    /\ RF' = <<>> /\ C_acc' = <<>> /\ iirf' = <<>> /\ R_i' = <<>> /\ T_j' = <<>>
    /\ C' = <<>> /\ T' = <<>>
    /\ x' = 0
    /\ time_scale_sf' = 0
    /\ root_calls' = <<>>

Init ==
    /\ \E n \in 2..MaxN :
          /\ full_emissions \in EmissionInputs(n)
          /\ full_other_rf \in ForcingInputs(n)
    /\ params \in ParamSets
    /\ phase = "whole"
    /\ n1 = 0
    /\ out = [whole |-> NoResult, seg1 |-> NoResult, seg2 |-> NoResult]
    /\ emissions = full_emissions
    /\ other_rf = full_other_rf
    /\ restart_in = NoRestart
    /\ restart_out = FALSE
    /\ FreshFrame
    /\ dmg = NoDamage

\* ------------------------------------------------------------------------
\* fair_scm, lines 4-112
\* ------------------------------------------------------------------------

\* lines 24-26: k, and q from tcrecs when tcrecs is an array
Resolve ==
    /\ pc = "resolve"
    /\ q' = IF IsArray(params.tcrecs)
            THEN QFromTcrEcs(params.tcrecs, <<K(params.d[1]), K(params.d[2])>>)
            ELSE q
    /\ pc' = "shape"
    /\ UNCHANGED <<caller, args, integ_len, arrays, x, time_scale_sf, root_calls, dmg>>

\* Shape without its else branch: two scalars run on with a horizon of one
ShapeUnchecked ==
    /\ pc = "shape"
    /\ integ_len' = IF emissions.ts THEN Len(emissions.val)
                    ELSE IF other_rf.ts THEN Len(other_rf.val) ELSE 1
    /\ emissions' = IF ~emissions.ts /\ other_rf.ts
                    THEN Series(Zeros(Len(other_rf.val))) ELSE emissions
    /\ pc' = "alloc"
    /\ UNCHANGED <<caller, other_rf, restart_in, restart_out, q, arrays, x,
                   time_scale_sf, root_calls, dmg>>

\* lines 30-40: the horizon from emissions, else from other_rf (emissions
\* becoming zeros), else ValueError
Shape ==
    /\ pc = "shape"
    /\ \/ /\ emissions.ts
          /\ integ_len' = Len(emissions.val)
          /\ pc' = "alloc"
          /\ UNCHANGED emissions
       \/ /\ ~emissions.ts /\ other_rf.ts
          /\ integ_len' = Len(other_rf.val)
          /\ emissions' = Series(Zeros(Len(other_rf.val)))
          /\ pc' = "alloc"
       \/ /\ ~emissions.ts /\ ~other_rf.ts
          /\ pc' = "raised"
          /\ UNCHANGED <<emissions, integ_len>>
    /\ UNCHANGED <<caller, other_rf, restart_in, restart_out, q, arrays, x,
                   time_scale_sf, root_calls, dmg>>

\* lines 42-49: np.zeros for every output and state array
Allocate ==
    /\ pc = "alloc"
    /\ RF' = Zeros(integ_len)
    /\ C_acc' = Zeros(integ_len)
    /\ iirf' = Zeros(integ_len)
    /\ R_i' = [t \in 1..integ_len |-> Zeros(4)]
    /\ T_j' = [t \in 1..integ_len |-> Zeros(2)]
    /\ C' = Zeros(integ_len)
    /\ T' = Zeros(integ_len)
    /\ pc' = "init"
    /\ UNCHANGED <<caller, args, q, integ_len, x, time_scale_sf, root_calls, dmg>>

\* other_rf at index t (0-based): the scalar itself when type(other_rf) == float
OtherRf(t) == IF other_rf.ts THEN other_rf.val[t + 1] ELSE other_rf.val[1]

\* (F_2x/np.log(2.)) * np.log((c + C_0)/C_0) + other_rf
Forcing(c, t) == FMul(FDiv(F_2x, Ln(2 * S)), Ln(FDiv(c + C_0, C_0))) + OtherRf(t)

\* a * emissions[t] / ppm_gtc, box i
Uptake(i, t) == FDiv(FMul(a[i], emissions.val[t + 1]), 10 * ppm_gtc)

\* Thermal0 with the test of line 67 dropped
Thermal0Recomputed(RF0) ==
    [j \in Therm |-> XMul(XDiv(q[j], params.d[j]), RF0)]

\* lines 67-69: the thermal boxes of index 0, from RF[0] unless restarting
Thermal0(RF0) ==
    IF ~restart_in.set
    THEN [j \in Therm |-> XMul(XDiv(q[j], params.d[j]), RF0)]
    ELSE restart_in.T_j

\* lines 51-72: index 0
Init0 ==
    /\ pc = "init"
    /\ LET R0  == IF restart_in.set THEN restart_in.R_i
                  ELSE [i \in Boxes |-> Uptake(i, 0)]
           C0  == SumSeq(R0)
           RF0 == Forcing(C0, 0)
           Tj0 == Thermal0(RF0)
       IN  /\ R_i' = [R_i EXCEPT ![1] = R0]
           /\ C_acc' = IF restart_in.set
                       THEN [C_acc EXCEPT ![1] = restart_in.C_acc] ELSE C_acc
           /\ C' = [C EXCEPT ![1] = C0]
           /\ RF' = [RF EXCEPT ![1] = RF0]
           /\ T_j' = [T_j EXCEPT ![1] = Tj0]
           /\ T' = [T EXCEPT ![1] = SumSeq(Tj0)]
    /\ x' = 1
    /\ pc' = "loop"
    /\ UNCHANGED <<caller, args, q, integ_len, iirf, time_scale_sf, root_calls, dmg>>

\* rc * C_acc[x-1] + rt*T[x-1] + r0
IirfOf(cacc, temp) ==
    XAdd(XAdd(FMul(rc, TDiv(cacc, AccUnit \div S)), XMul(rt, temp)), params.r0)

\* lines 77-79: the ceiling applies when the comparison holds
Clamp(v) == IF XGe(v, params.iirf_max) THEN params.iirf_max ELSE v

\* SolveSeed with every solve started cold
SolveSeedCold == alpha_seed

\* lines 82-85: 0.16 at x = 1, the previous solution after it
SolveSeed == IF x = 1 THEN alpha_seed ELSE time_scale_sf

\* lines 74-85: the next index of the loop, iirf[x] and the solve for alpha
Solve ==
    /\ pc = "loop"
    /\ x < integ_len
    /\ LET targ == Clamp(IirfOf(C_acc[x], T[x]))
           seed == SolveSeed
       IN  /\ iirf' = [iirf EXCEPT ![x + 1] = targ]
           /\ \E r \in RootResults(seed, targ) :
                 /\ time_scale_sf' = r.x
                 /\ root_calls' = Append(root_calls,
                        [step |-> x, seed |-> seed, targ |-> targ,
                         x |-> r.x, success |-> r.success])
    /\ pc' = "update"
    /\ UNCHANGED <<caller, args, q, integ_len, RF, C_acc, R_i, T_j, C, T, x, dmg>>

\* np.exp(-1.0/tau_new), tau_new = tau * time_scale_sf, box i
CarbonDecay(i) == ExpNeg((10 ^ 9 \div tau[i]) \div time_scale_sf)

\* np.exp(-1.0/d), thermal box j
ThermalDecay(j) == ExpNeg(FDiv(S, params.d[j]))

\* Emitted with the step's emissions only, not the mean of the two years
EmittedEndOfYear == emissions.val[x + 1] * (AccUnit \div S)

\* 0.5*(emissions[x] + emissions[x-1]), in units of C_acc
Emitted == (emissions.val[x + 1] + emissions.val[x]) * (AccUnit \div (2 * S))

\* c * ppm_gtc, in units of C_acc
InGtC(c) == c * ppm_gtc * 2

\* lines 88-106: index x of every array, then the next x
Update ==
    /\ pc = "update"
    /\ LET Rx  == [i \in Boxes |-> FMul(R_i[x][i], CarbonDecay(i)) + Uptake(i, x)]
           Cx  == SumSeq(Rx)
           RFx == Forcing(Cx, x)
           Tjx == [j \in Therm |->
                     XAdd(XMul(T_j[x][j], ThermalDecay(j)),
                          XMul(XMul(q[j], S - ThermalDecay(j)), RFx))]
       IN  /\ R_i' = [R_i EXCEPT ![x + 1] = Rx]
           /\ C' = [C EXCEPT ![x + 1] = Cx]
           /\ C_acc' = [C_acc EXCEPT ![x + 1] =
                          C_acc[x] + Emitted - InGtC(Cx - C[x])]
           /\ RF' = [RF EXCEPT ![x + 1] = RFx]
           /\ T_j' = [T_j EXCEPT ![x + 1] = Tjx]
           /\ T' = [T EXCEPT ![x + 1] = SumSeq(Tjx)]
    /\ x' = x + 1
    /\ pc' = "loop"
    /\ UNCHANGED <<caller, args, q, integ_len, iirf, time_scale_sf, root_calls, dmg>>

\* lines 108-112: C + C_0 and T, with the last state when restart_out
Return ==
    /\ pc = "loop"
    /\ x >= integ_len
    /\ out' = [out EXCEPT ![phase] =
                 [returned |-> TRUE,
                  C |-> [t \in 1..integ_len |-> C[t] + C_0],
                  T |-> T,
                  restart |-> IF restart_out
                              THEN [set |-> TRUE, R_i |-> R_i[integ_len],
                                    T_j |-> T_j[integ_len], C_acc |-> C_acc[integ_len]]
                              ELSE NoRestart]]
    /\ pc' = "done"
    /\ UNCHANGED <<full_emissions, full_other_rf, params, phase, n1, args, locals, dmg>>

\* ------------------------------------------------------------------------
\* The caller: the horizon in one pass, then in two segments chained by the
\* restart snapshot
\* ------------------------------------------------------------------------

\* fair_scm(emissions[:n1], other_rf[:n1], restart_out=True)
CallSeg1 ==
    /\ pc = "done" /\ phase = "whole"
    /\ \E m \in 1..(FullLen - 1) :
          /\ n1' = m
          /\ emissions' = SliceInput(full_emissions, 1, m)
          /\ other_rf' = SliceInput(full_other_rf, 1, m)
    /\ restart_in' = NoRestart
    /\ restart_out' = TRUE
    /\ phase' = "seg1"
    /\ NewFrame
    /\ UNCHANGED <<full_emissions, full_other_rf, params, out, dmg>>

\* fair_scm(emissions[n1:], other_rf[n1:], restart_in=<the snapshot>)
CallSeg2 ==
    /\ pc = "done" /\ phase = "seg1"
    /\ emissions' = SliceInput(full_emissions, n1 + 1, FullLen)
    /\ other_rf' = SliceInput(full_other_rf, n1 + 1, FullLen)
    /\ restart_in' = out.seg1.restart
    /\ restart_out' = FALSE
    /\ phase' = "seg2"
    /\ NewFrame
    /\ UNCHANGED <<full_emissions, full_other_rf, params, n1, out, dmg>>

Next ==
    \/ Resolve \/ Shape \/ Allocate \/ Init0 \/ Solve \/ Update \/ Return
    \/ CallSeg1 \/ CallSeg2

Spec == Init /\ [][Next]_vars

\* ------------------------------------------------------------------------
\* damage_function, lines 142-145
\* ------------------------------------------------------------------------

\* the longest temperature array and the largest exponent of the calls
MaxT == 2
MaxGamma == 2

\* x ** g for a finite x and a whole g: 1.0 at g = 0 (also for x = 0), and
\* 1/x**(-g) for g < 0, infinite at x = 0
RECURSIVE Pow(_, _)
Pow(v, g) ==
    IF g = 0 THEN S
    ELSE IF g > 0 THEN FMul(v, Pow(v, g - 1))
    ELSE XDiv(S, Pow(v, 0 - g))

\* Floored without the floor
Unfloored(v) == v

\* T1: zeros, with T copied where T > 0 (false for nan)
Floored(v) == IF v # NaN /\ v > 0 THEN v ELSE 0

\* (D0*T1**gamma)/(1+D0*T1**gamma), element by element
DamageFunction(D0, gamma, temp) ==
    [i \in DOMAIN temp |->
        LET n == XMul(D0, Pow(Floored(temp[i]), gamma))
        IN  XDiv(n, XAdd(S, n))]

DamageInputs ==
    { [called |-> FALSE, D0 |-> D0, gamma |-> g, T |-> t, result |-> <<>>] :
        D0 \in {0, S \div 2, S, 2 * S},
        g \in (0 - 1)..MaxGamma,
        t \in UNION {[1..n -> {0 - S, 0, S, NaN}] : n \in 1..MaxT} }

\* no fair_scm call is running while damage_function is looked at
InitDamage ==
    /\ full_emissions = Scalar(0)
    /\ full_other_rf = Scalar(0)
    /\ params \in {p \in ParamSets : p.d = d_default /\ p.r0 = r0_default}
    /\ phase = "whole"
    /\ n1 = 0
    /\ out = [whole |-> NoResult, seg1 |-> NoResult, seg2 |-> NoResult]
    /\ emissions = full_emissions
    /\ other_rf = full_other_rf
    /\ restart_in = NoRestart
    /\ restart_out = FALSE
    /\ FreshFrame
    /\ dmg \in DamageInputs

Damage ==
    /\ ~dmg.called
    /\ dmg' = [dmg EXCEPT !.called = TRUE,
                          !.result = DamageFunction(dmg.D0, dmg.gamma, dmg.T)]
    /\ UNCHANGED <<caller, args, pc, locals>>

NextDamage == Damage

SpecDamage == InitDamage /\ [][NextDamage]_vars

\* ------------------------------------------------------------------------
\* Properties
\* ------------------------------------------------------------------------

\* the entries of the running call's arrays written so far (indices 0..x-1)
Written == IF pc \in {"loop", "update", "done"} THEN x ELSE 0

AllZero(v) == \A i \in DOMAIN v.val : v.val[i] = 0
FailedSolve == \E i \in DOMAIN root_calls : ~root_calls[i].success
Degenerate ==
    IsArray(params.tcrecs) /\ K(params.d[1]) = K(params.d[2])

\* C1: restart continuity.  Once the whole horizon and the two chained
\* segments have returned, the second segment's concentration and temperature
\* at index j equal the whole run's at index n1 + j.
RestartContinuity ==
    out.seg2.returned =>
        \A j \in 1..(FullLen - n1) :
            /\ out.seg2.C[j] = out.whole.C[n1 + j]
            /\ out.seg2.T[j] = out.whole.T[n1 + j]

\* C2: a solve that did not converge fails the run: the call is in no state
\* but the raised one once root has reported a failure.
FailedSolveRaises == FailedSolve => pc = "raised"

\* C3: with neither emissions nor other_rf a series the call never gets past
\* the shape test: it raises, with no array allocated and nothing returned.
NoSeriesRaisesFirst ==
    (~emissions.ts /\ ~other_rf.ts) =>
        /\ pc \in {"resolve", "shape", "raised"}
        /\ RF = <<>> /\ C_acc = <<>> /\ iirf = <<>> /\ R_i = <<>>
        /\ T_j = <<>> /\ C = <<>> /\ T = <<>>
        /\ ~out[phase].returned

NoSeriesRaised ==
    pc = "raised" /\ ~emissions.ts /\ ~other_rf.ts /\ integ_len = 0

\* C4: with q derived from tcrecs and k[0] = k[1] the call fails at the
\* derivation: it never reaches the shape test or any later line.
DegenerateFails == Degenerate => pc \in {"resolve", "raised"}

\* C5: with all-zero emissions and forcing and no restart, every box, C_acc
\* and RF stay zero, and the returned series are C_0 and 0 throughout.
ZeroStaysZero ==
    (AllZero(emissions) /\ AllZero(other_rf) /\ ~restart_in.set) =>
        /\ \A t \in 1..Len(R_i) :
              /\ R_i[t] = Zeros(4) /\ T_j[t] = Zeros(2)
              /\ C_acc[t] = 0 /\ RF[t] = 0
        /\ out[phase].returned =>
              \A t \in 1..integ_len :
                  out[phase].C[t] = C_0 /\ out[phase].T[t] = 0

\* C6 as stated: damage_function returns 0 wherever T <= 0, whatever D0 and
\* gamma.
DamageZeroBelowZero ==
    dmg.called =>
        \A i \in DOMAIN dmg.T :
            (dmg.T[i] # NaN /\ dmg.T[i] <= 0) => dmg.result[i] = 0

\* C6: damage_function returns 0 wherever T <= 0, for every D0 and every
\* gamma > 0.
DamageZeroBelowZeroPositiveGamma ==
    (dmg.called /\ dmg.gamma > 0) =>
        \A i \in DOMAIN dmg.T :
            (dmg.T[i] # NaN /\ dmg.T[i] <= 0) => dmg.result[i] = 0

DamageOfNegative ==
    /\ dmg.called /\ dmg.gamma > 0 /\ dmg.D0 > 0
    /\ \E i \in DOMAIN dmg.T : dmg.T[i] < 0 /\ dmg.result[i] = 0
    /\ \E i \in DOMAIN dmg.T : dmg.T[i] = S /\ dmg.result[i] > 0

\* C7: in a restarted call index 0 of R_i, T_j and C_acc is the snapshot, T[0]
\* the sum of the snapshot's thermal boxes, and C[0] and RF[0] are computed
\* from the seeded R_i[0].
RestartSeedsIndex0 ==
    (restart_in.set /\ Written >= 1) =>
        /\ R_i[1] = restart_in.R_i
        /\ T_j[1] = restart_in.T_j
        /\ C_acc[1] = restart_in.C_acc
        /\ T[1] = SumSeq(restart_in.T_j)
        /\ C[1] = SumSeq(restart_in.R_i)
        /\ RF[1] = Forcing(C[1], 0)

RestartedFromWarmState ==
    /\ restart_in.set /\ pc = "done"
    /\ restart_in.C_acc # 0
    /\ R_i[1] # [i \in Boxes |-> Uptake(i, 0)]
    /\ T_j[1] # Thermal0Recomputed(RF[1])
    /\ T[1] # 0

\* C8: every target handed to the solve is at most iirf_max: the value of
\* rc*C_acc[t-1] + rt*T[t-1] + r0 when that is below iirf_max, iirf_max
\* otherwise; and the call has not raised.
IirfAtMostCeiling ==
    \A i \in DOMAIN root_calls :
        LET v == IirfOf(C_acc[i], T[i])
        IN  /\ XGe(params.iirf_max, iirf[i + 1])
            /\ iirf[i + 1] = IF v # NaN /\ v < params.iirf_max
                             THEN v ELSE params.iirf_max
            /\ root_calls[i].targ = iirf[i + 1]
            /\ pc # "raised"

\* C9: the solves run at t = 1, 2, .. in order, the first seeded with 0.16
\* and each later one with the alpha the one before returned, and index t of
\* the arrays is still as allocated until the solve of t has returned.
SolvesOrderedAndWarmStarted ==
    /\ \A i \in DOMAIN root_calls :
          /\ root_calls[i].step = i
          /\ root_calls[i].seed =
                IF i = 1 THEN alpha_seed ELSE root_calls[i - 1].x
    /\ pc = "loop" => Len(root_calls) = x - 1
    /\ pc = "update" => Len(root_calls) = x /\ time_scale_sf = root_calls[x].x
    /\ \A t \in (Written + 1)..Len(C) :
          /\ R_i[t] = Zeros(4) /\ C[t] = 0 /\ C_acc[t] = 0
          /\ RF[t] = 0 /\ T_j[t] = Zeros(2) /\ T[t] = 0

WarmStartedAfterRestart ==
    /\ restart_in.set /\ Len(root_calls) >= 2
    /\ out.seg1.returned
    /\ root_calls[1].seed = alpha_seed
    /\ root_calls[1].x # alpha_seed
    /\ root_calls[2].seed = root_calls[1].x

\* the trapezoidal integral of the emissions up to index t, in units of C_acc
RECURSIVE EmittedUpTo(_)
EmittedUpTo(t) ==
    IF t <= 1 THEN 0
    ELSE EmittedUpTo(t - 1)
         + (emissions.val[t] + emissions.val[t - 1]) * (AccUnit \div (2 * S))

\* C10: at every written index, accumulated uptake plus atmospheric carbon is
\* the total of index 0 plus the trapezoidal integral of the emissions.
CarbonMassBalance ==
    \A t \in 1..Written :
        C_acc[t] + InGtC(C[t]) = C_acc[1] + InGtC(C[1]) + EmittedUpTo(t)

BalancedWithFailedSolve ==
    /\ pc = "done" /\ integ_len >= 3
    /\ FailedSolve
    /\ C_acc[3] # C_acc[2] /\ C[3] # C[2]
    /\ emissions.val[3] # emissions.val[2]
=============================================================================
